---- MODULE Spec2Model ----
(***************************************************************************)
(* Model of the per-client relay session of src/main.py: the websocket     *)
(* endpoint (downstream handler), GeminiLiveSession (connect, handshake,   *)
(* the three upstream sends, close), the upstream listener task and the    *)
(* registry active_sessions.                                               *)
(*                                                                         *)
(* JSON objects are modelled as records, "key in dict" as                  *)
(* "key" \in DOMAIN dict.  The two sockets are the environment: each has a *)
(* connection state and a queue of frames the peer has sent.  A send on a  *)
(* connection that is no longer open raises, a send on an open one         *)
(* succeeds; every send call is logged with its outcome.                   *)
(***************************************************************************)
EXTENDS Integers, Sequences, FiniteSets, TLC

\* ---------------------------------------------------------------- bounds
MaxSessions == 2
\* frames the two peers put on the sockets, both directions, all sessions
MaxTraffic == 3
\* frames the upstream sends under SpecUpstream
MaxFrames == 1
MaxParts == 2

SessionIds == 1 .. MaxSessions
\* the sessions that run under Spec (one client)
SingleSession == {1}

\* ------------------------------------------------------- message universe
AUDIO_PCM == "audio/pcm"

\* Envelopes a client can put on the downstream socket (iter_json yields
\* them as dicts).  The last one is an audio_data envelope without its
\* "data" key.
ClientEnvelopes ==
    { [type |-> "audio_data", data |-> "QUJD"],
      [type |-> "text_data", data |-> "hello"],
      [type |-> "interrupt"],
      [type |-> "ping"],
      [type |-> "audio_data"] }

\* Parts of a modelTurn as the upstream may send them.
AudioPart == [inlineData |-> [mimeType |-> AUDIO_PCM, data |-> "UENN"]]
TextPart == [text |-> "hi"]
ImagePart == [inlineData |-> [mimeType |-> "image/png", data |-> "iVBO"]]
NoMimePart == [inlineData |-> [data |-> "UENN"]]

RelayParts == {AudioPart, TextPart}

RECURSIVE SeqsUpTo(_, _)
SeqsUpTo(S, n) ==
    IF n = 0 THEN {<<>>}
    ELSE LET shorter == SeqsUpTo(S, n - 1)
         IN shorter \cup {Append(q, e) : q \in {r \in shorter : Len(r) = n - 1}, e \in S}

PartLists == SeqsUpTo(RelayParts, MaxParts) \cup {<<ImagePart, TextPart>>, <<NoMimePart, TextPart>>}

\* Frames the upstream can put on its socket: text that json.loads accepts
\* (wellformed, with the decoded value) or text it rejects.
GeminiMessages ==
    { [setupComplete |-> [x \in {} |-> 0]] }
    \cup { [serverContent |-> [modelTurn |-> [parts |-> ps]]] : ps \in PartLists }
    \cup { [serverContent |-> [modelTurn |-> [parts |-> ps], turnComplete |-> TRUE]] :
              ps \in PartLists \ {<<>>} }
    \cup { [serverContent |-> [turnComplete |-> TRUE]] }
    \cup { [serverContent |-> [interrupted |-> TRUE]] }
    \cup { [usageMetadata |-> [totalTokenCount |-> 1]] }

MalformedFrame == [wellformed |-> FALSE]

GeminiFrames ==
    { [wellformed |-> TRUE, value |-> m] : m \in GeminiMessages } \cup { MalformedFrame }

\* The frames of an ordinary conversation, with one malformed frame.
CoreFrames ==
    { [wellformed |-> TRUE, value |-> [setupComplete |-> [x \in {} |-> 0]]],
      [wellformed |-> TRUE,
       value |-> [serverContent |-> [modelTurn |-> [parts |-> <<AudioPart, TextPart>>]]]],
      [wellformed |-> TRUE, value |-> [serverContent |-> [turnComplete |-> TRUE]]],
      MalformedFrame }

\* Valid JSON of shapes handle_gemini_message has no branch for, and one
\* turn end among them.
UnrecognizedFrames ==
    { [wellformed |-> TRUE, value |-> m] :
         m \in { [usageMetadata |-> [totalTokenCount |-> 1]],
                 [serverContent |-> [interrupted |-> TRUE]],
                 [serverContent |-> [modelTurn |-> [role |-> "model"]]],
                 [serverContent |-> [modelTurn |-> [parts |-> <<ImagePart, TextPart>>]]],
                 [serverContent |-> [modelTurn |-> [parts |-> <<NoMimePart, TextPart>>]]] } }

TurnEndFrame == [wellformed |-> TRUE, value |-> [serverContent |-> [turnComplete |-> TRUE]]]

\* ----------------------------------------------------------------- state
VARIABLES
    active_sessions,   \* the registry: ids of the registered sessions
    gemini_ws,         \* session -> "None" | "ws" (the handle attribute)
    is_connected,      \* session -> BOOLEAN (the flag attribute)
    connect_calls,     \* session -> number of websockets.connect calls made
    endpoint_pc,       \* session -> position of websocket_endpoint
    listener_pc,       \* session -> position of the listen_to_gemini task
    parts_left,        \* session -> parts of the message being handled
    gemini_conn,       \* session -> state of the upstream connection
    client_conn,       \* session -> state of the downstream connection
    client_inbox,      \* session -> envelopes the client has sent so far
    client_read,       \* session -> how many of them iter_json has yielded
    gemini_inbox,      \* session -> frames the upstream has sent so far
    gemini_read,       \* session -> how many of them the listener has taken
    gemini_sent,       \* session -> log of gemini_ws.send calls
    client_sent        \* session -> log of client_ws.send_json calls

vars == << active_sessions, gemini_ws, is_connected, connect_calls, endpoint_pc,
           listener_pc, parts_left, gemini_conn, client_conn, client_inbox,
           client_read, gemini_inbox, gemini_read, gemini_sent, client_sent >>

sessionVars == << active_sessions, gemini_ws, is_connected, connect_calls, endpoint_pc >>
listenerVars == << listener_pc, parts_left, gemini_read >>
envVars == << gemini_conn, client_conn, client_inbox, gemini_inbox >>

Init ==
    /\ active_sessions = {}
    /\ gemini_ws = [s \in SessionIds |-> "None"]
    /\ is_connected = [s \in SessionIds |-> FALSE]
    /\ connect_calls = [s \in SessionIds |-> 0]
    /\ endpoint_pc = [s \in SessionIds |-> "idle"]
    /\ listener_pc = [s \in SessionIds |-> "none"]
    /\ parts_left = [s \in SessionIds |-> <<>>]
    /\ gemini_conn = [s \in SessionIds |-> "none"]
    /\ client_conn = [s \in SessionIds |-> "none"]
    /\ client_inbox = [s \in SessionIds |-> <<>>]
    /\ client_read = [s \in SessionIds |-> 0]
    /\ gemini_inbox = [s \in SessionIds |-> <<>>]
    /\ gemini_read = [s \in SessionIds |-> 0]
    /\ gemini_sent = [s \in SessionIds |-> <<>>]
    /\ client_sent = [s \in SessionIds |-> <<>>]

\* ------------------------------------------------------------ translator
\* setup_session's setup_message (the generation_config is constant)
SetupMessage ==
    [setup |-> [model |-> "models/gemini-2.0-flash-live-001",
                generation_config |-> [response_modalities |-> <<"AUDIO">>],
                system_instruction |-> [parts |-> <<[text |-> "SYSTEM_INSTRUCTION"]>>]]]

\* AudioMessage with the turn left open
AudioMessage_TurnOpen(audio_data) ==
    [clientContent |->
        [turns |-> << [role |-> "user",
                       parts |-> << [inlineData |-> [mimeType |-> AUDIO_PCM,
                                                     data |-> audio_data]] >>] >>,
         turnComplete |-> FALSE]]

\* send_audio_to_gemini's message
AudioMessage(audio_data) ==
    [clientContent |->
        [turns |-> << [role |-> "user",
                       parts |-> << [inlineData |-> [mimeType |-> AUDIO_PCM,
                                                     data |-> audio_data]] >>] >>,
         turnComplete |-> TRUE]]

\* send_text_to_gemini's message
TextMessage(text) ==
    [clientContent |->
        [turns |-> << [role |-> "user", parts |-> << [text |-> text] >>] >>,
         turnComplete |-> TRUE]]

\* interrupt_gemini's message
InterruptMessage == [clientContent |-> [turnComplete |-> FALSE]]

ConnectedEnvelope == [type |-> "connection_status", status |-> "connected"]
DisconnectedEnvelope == [type |-> "connection_status", status |-> "disconnected"]
ErrorEnvelope == [type |-> "error", message |-> "Failed to connect to AI service"]
PongEnvelope == [type |-> "pong"]
TurnCompleteEnvelope == [type |-> "turn_complete"]
SetupCompleteEnvelope == [type |-> "setup_complete"]
AudioResponse(part) == [type |-> "audio_response", audio_data |-> part.inlineData.data]
TextResponse(part) == [type |-> "text_response", text |-> part.text]

\* json_loads with the outcome inverted
json_loads_Inverted(frame) ==
    IF frame.wellformed THEN [ok |-> FALSE] ELSE [ok |-> TRUE, data |-> [x \in {} |-> 0]]

\* json.loads of an upstream frame
json_loads(frame) ==
    IF frame.wellformed THEN [ok |-> TRUE, data |-> frame.value] ELSE [ok |-> FALSE]

\* PartEffect without the text branch
PartEffect_AudioOnly(part) ==
    IF "inlineData" \in DOMAIN part /\ "mimeType" \notin DOMAIN part.inlineData
    THEN [kind |-> "raise"]
    ELSE IF "inlineData" \in DOMAIN part /\ part.inlineData.mimeType = AUDIO_PCM
    THEN [kind |-> "send", envelope |-> AudioResponse(part)]
    ELSE [kind |-> "skip"]

\* PartEffect without the test of the MIME type
PartEffect_AnyMime(part) ==
    IF "inlineData" \in DOMAIN part /\ "mimeType" \notin DOMAIN part.inlineData
    THEN [kind |-> "raise"]
    ELSE IF "inlineData" \in DOMAIN part
    THEN [kind |-> "send", envelope |-> AudioResponse(part)]
    ELSE IF "text" \in DOMAIN part
    THEN [kind |-> "send", envelope |-> TextResponse(part)]
    ELSE [kind |-> "skip"]

\* One iteration of handle_gemini_message's "for part in parts": what the
\* iteration does with the part.
PartEffect(part) ==
    IF "inlineData" \in DOMAIN part /\ "mimeType" \notin DOMAIN part.inlineData
    THEN [kind |-> "raise"]
    ELSE IF "inlineData" \in DOMAIN part /\ part.inlineData.mimeType = AUDIO_PCM
    THEN [kind |-> "send", envelope |-> AudioResponse(part)]
    ELSE IF "text" \in DOMAIN part
    THEN [kind |-> "send", envelope |-> TextResponse(part)]
    ELSE [kind |-> "skip"]

\* handle_gemini_message up to its part loop: what the message leads to
\* (the KeyError of model_turn["parts"] is caught at line 127).
MessageEffect(message) ==
    IF "serverContent" \in DOMAIN message
    THEN LET server_content == message.serverContent
         IN IF "modelTurn" \in DOMAIN server_content
            THEN IF "parts" \in DOMAIN server_content.modelTurn
                 THEN [kind |-> "parts", parts |-> server_content.modelTurn.parts]
                 ELSE [kind |-> "raise"]
            ELSE IF "turnComplete" \in DOMAIN server_content
            THEN [kind |-> "send", envelope |-> TurnCompleteEnvelope]
            ELSE [kind |-> "skip"]
    ELSE IF "setupComplete" \in DOMAIN message
    THEN [kind |-> "send", envelope |-> SetupCompleteEnvelope]
    ELSE [kind |-> "skip"]

\* ------------------------------------------------------------- socket ops
GeminiOpen(s) == gemini_conn[s] = "open"
ClientOpen(s) == client_conn[s] = "open"

\* GeminiSend that puts the call in front of the log instead of at its end
GeminiSend_Prepended(s, message) ==
    << [message |-> message, ok |-> GeminiOpen(s)] >> \o gemini_sent[s]

\* await self.gemini_ws.send(...): the log after the call
GeminiSend(s, message) ==
    Append(gemini_sent[s], [message |-> message, ok |-> GeminiOpen(s)])

\* await client_ws.send_json(...): the log after the call, starting from log
ClientSend(s, log, envelope, by) ==
    Append(log, [envelope |-> envelope, ok |-> ClientOpen(s), by |-> by])

RECURSIVE TotalLen(_, _)
TotalLen(f, S) ==
    IF S = {} THEN 0
    ELSE LET s == CHOOSE x \in S : TRUE IN Len(f[s]) + TotalLen(f, S \ {s})

\* the frames put on the sockets so far
Traffic == TotalLen(client_inbox, SessionIds) + TotalLen(gemini_inbox, SessionIds)

\* --------------------------------------------------- websocket_endpoint
\* lines 472-476: accept the client, create the session, register it
websocket_accept(s) ==
    /\ endpoint_pc[s] = "idle"
    /\ client_conn' = [client_conn EXCEPT ![s] = "open"]
    /\ active_sessions' = active_sessions \cup {s}
    /\ gemini_ws' = [gemini_ws EXCEPT ![s] = "None"]
    /\ is_connected' = [is_connected EXCEPT ![s] = FALSE]
    /\ endpoint_pc' = [endpoint_pc EXCEPT ![s] = "connect"]
    /\ UNCHANGED << connect_calls, listenerVars, gemini_conn, client_inbox, client_read,
                    gemini_inbox, gemini_sent, client_sent >>

\* connect_to_gemini's except branch (lines 86-91), entered with downstream
\* log "log": the error envelope is sent; when that send raises too, the
\* exception leaves connect_to_gemini and the endpoint goes to its finally.
connect_failed(s, log) ==
    /\ client_sent' = [client_sent EXCEPT ![s] = ClientSend(s, log, ErrorEnvelope, "endpoint")]
    /\ endpoint_pc' = [endpoint_pc EXCEPT ![s] = IF ClientOpen(s) THEN "loop" ELSE "finally"]

\* connect_to_gemini, lines 61-70: the credential check and websockets.connect
connect_to_gemini(s) ==
    /\ endpoint_pc[s] = "connect"
    /\ \E outcome \in {"no_api_key", "refused", "connected"} :
          /\ connect_calls' = [connect_calls EXCEPT ![s] =
                                  IF outcome = "no_api_key" THEN @ ELSE @ + 1]
          /\ IF outcome = "connected"
             THEN /\ gemini_ws' = [gemini_ws EXCEPT ![s] = "ws"]
                  /\ gemini_conn' = [gemini_conn EXCEPT ![s] = "open"]
                  /\ is_connected' = [is_connected EXCEPT ![s] = TRUE]
                  /\ endpoint_pc' = [endpoint_pc EXCEPT ![s] = "setup"]
                  /\ UNCHANGED client_sent
             ELSE /\ connect_failed(s, client_sent[s])
                  /\ UNCHANGED << gemini_ws, gemini_conn, is_connected >>
    /\ UNCHANGED << active_sessions, listenerVars, client_conn, client_inbox, client_read,
                    gemini_inbox, gemini_sent >>

\* setup_session (lines 93-116), called at line 73
setup_session(s) ==
    /\ endpoint_pc[s] = "setup"
    /\ gemini_sent' = [gemini_sent EXCEPT ![s] = GeminiSend(s, SetupMessage)]
    /\ IF GeminiOpen(s)
       THEN /\ endpoint_pc' = [endpoint_pc EXCEPT ![s] = "notify"]
            /\ UNCHANGED client_sent
       ELSE connect_failed(s, client_sent[s])
    /\ UNCHANGED << active_sessions, gemini_ws, is_connected, connect_calls, listenerVars,
                    envVars, client_read >>

\* notify_connected with the listener task created before the notice is sent
notify_connected_ListenerFirst(s) ==
    /\ endpoint_pc[s] = "notify"
    /\ listener_pc' = [listener_pc EXCEPT ![s] = "listening"]
    /\ LET log == ClientSend(s, client_sent[s], ConnectedEnvelope, "endpoint")
       IN IF ClientOpen(s)
          THEN /\ client_sent' = [client_sent EXCEPT ![s] = log]
               /\ endpoint_pc' = [endpoint_pc EXCEPT ![s] = "loop"]
          ELSE connect_failed(s, log)
    /\ UNCHANGED << active_sessions, gemini_ws, is_connected, connect_calls, parts_left,
                    gemini_read, envVars, client_read, gemini_sent >>

\* connect_to_gemini, lines 76-84: the connected notice, then the listener
\* task is created
notify_connected(s) ==
    /\ endpoint_pc[s] = "notify"
    /\ LET log == ClientSend(s, client_sent[s], ConnectedEnvelope, "endpoint")
       IN IF ClientOpen(s)
          THEN /\ client_sent' = [client_sent EXCEPT ![s] = log]
               /\ listener_pc' = [listener_pc EXCEPT ![s] = "listening"]
               /\ endpoint_pc' = [endpoint_pc EXCEPT ![s] = "loop"]
          ELSE /\ connect_failed(s, log)
               /\ UNCHANGED listener_pc
    /\ UNCHANGED << active_sessions, gemini_ws, is_connected, connect_calls, parts_left,
                    gemini_read, envVars, client_read, gemini_sent >>

\* may_send without the test of the flag
may_send_HandleOnly(s) == gemini_ws[s] # "None"

\* The guard shared by the three send operations (lines 175, 203, 228)
may_send(s) == is_connected[s] /\ gemini_ws[s] # "None"

\* send_audio_to_gemini / send_text_to_gemini / interrupt_gemini: the
\* upstream log after the call; a failing send is caught and logged
send_to_gemini(s, message) ==
    IF may_send(s) THEN GeminiSend(s, message) ELSE gemini_sent[s]

\* Dispatch with the ping branch fallen into the interrupt branch
Dispatch_PingForwarded(message) ==
    LET message_type == IF "type" \in DOMAIN message THEN message.type ELSE "None"
    IN IF message_type \in {"audio_data", "text_data"} /\ "data" \notin DOMAIN message
       THEN [kind |-> "raise"]
       ELSE IF message_type = "audio_data"
       THEN [kind |-> "upstream", message |-> AudioMessage(message.data)]
       ELSE IF message_type = "text_data"
       THEN [kind |-> "upstream", message |-> TextMessage(message.data)]
       ELSE IF message_type \in {"interrupt", "ping"}
       THEN [kind |-> "upstream", message |-> InterruptMessage]
       ELSE [kind |-> "skip"]

\* lines 484-493: the dispatch on message.get("type"): the message for one
\* of the three upstream sends, or the envelope answered downstream, or
\* the KeyError of message["data"]
Dispatch(message) ==
    LET message_type == IF "type" \in DOMAIN message THEN message.type ELSE "None"
    IN IF message_type \in {"audio_data", "text_data"} /\ "data" \notin DOMAIN message
       THEN [kind |-> "raise"]
       ELSE IF message_type = "audio_data"
       THEN [kind |-> "upstream", message |-> AudioMessage(message.data)]
       ELSE IF message_type = "text_data"
       THEN [kind |-> "upstream", message |-> TextMessage(message.data)]
       ELSE IF message_type = "interrupt"
       THEN [kind |-> "upstream", message |-> InterruptMessage]
       ELSE IF message_type = "ping"
       THEN [kind |-> "downstream", envelope |-> PongEnvelope]
       ELSE [kind |-> "skip"]

\* lines 483-493: the next envelope of iter_json and its dispatch; an
\* exception (the KeyError, a pong on the closed client socket) leads to
\* the finally block
receive_envelope(s) ==
    /\ endpoint_pc[s] = "loop"
    /\ client_read[s] < Len(client_inbox[s])
    /\ LET effect == Dispatch(client_inbox[s][client_read[s] + 1])
       IN /\ client_read' = [client_read EXCEPT ![s] = @ + 1]
          /\ gemini_sent' = [gemini_sent EXCEPT ![s] =
                IF effect.kind = "upstream" THEN send_to_gemini(s, effect.message) ELSE @]
          /\ client_sent' = [client_sent EXCEPT ![s] =
                IF effect.kind = "downstream"
                THEN ClientSend(s, @, effect.envelope, "endpoint") ELSE @]
          /\ endpoint_pc' = [endpoint_pc EXCEPT ![s] =
                IF effect.kind = "raise" \/ (effect.kind = "downstream" /\ ~ClientOpen(s))
                THEN "finally" ELSE "loop"]
    /\ UNCHANGED << active_sessions, gemini_ws, is_connected, connect_calls, listenerVars,
                    envVars >>

\* line 483/495: iter_json ends because the client has disconnected
client_disconnected(s) ==
    /\ endpoint_pc[s] = "loop"
    /\ client_read[s] = Len(client_inbox[s])
    /\ client_conn[s] = "closed"
    /\ endpoint_pc' = [endpoint_pc EXCEPT ![s] = "finally"]
    /\ UNCHANGED << active_sessions, gemini_ws, is_connected, connect_calls, listenerVars,
                    envVars, client_read, gemini_sent, client_sent >>

\* finish_teardown emptying the registry instead of removing its own entry
finish_teardown_ClearsRegistry(s) ==
    /\ is_connected' = [is_connected EXCEPT ![s] = FALSE]
    /\ active_sessions' = {}
    /\ client_conn' = [client_conn EXCEPT ![s] = IF @ = "open" THEN "released" ELSE @]
    /\ endpoint_pc' = [endpoint_pc EXCEPT ![s] = "done"]

\* lines 246 and 502-503: the flag is cleared and the registry entry
\* removed; the endpoint returns and the server closes the client socket
finish_teardown(s) ==
    /\ is_connected' = [is_connected EXCEPT ![s] = FALSE]
    /\ active_sessions' = active_sessions \ {s}
    /\ client_conn' = [client_conn EXCEPT ![s] = IF @ = "open" THEN "released" ELSE @]
    /\ endpoint_pc' = [endpoint_pc EXCEPT ![s] = "done"]

\* close with a gemini_ws.close() that raises on a connection already closed
ws_close_outcomes_RaisesOnClosed(s) ==
    IF GeminiOpen(s) THEN {"returned"} ELSE {"raised"}

\* await self.gemini_ws.close() (line 245): on a closed connection it
\* returns at once; on an open one it sends the close frame and returns
\* after the closing handshake, or raises ConnectionClosed when the write
\* of the close frame finds the socket dead
ws_close_outcomes(s) ==
    IF GeminiOpen(s) THEN {"returned", "raised"} ELSE {"returned"}

\* close with the gemini_ws.close() call left out
ws_closed_Forgotten(conn) == conn

\* the connection state gemini_ws.close() leaves behind when it returns
ws_closed(conn) == IF conn = "open" THEN "closed_local" ELSE conn

\* the finally block, line 501 with close's lines 244-245: the upstream
\* handle, when there is one, is closed (an await); without a handle close
\* runs through to the end of the finally block.  When gemini_ws.close()
\* raises, the exception leaves close and the finally block: lines 246 and
\* 502-503 do not run, the endpoint ends and the server closes the client
\* socket.
close(s) ==
    /\ endpoint_pc[s] = "finally"
    /\ IF gemini_ws[s] # "None"
       THEN \E outcome \in ws_close_outcomes(s) :
               IF outcome = "returned"
               THEN /\ gemini_conn' = [gemini_conn EXCEPT ![s] = ws_closed(@)]
                    /\ endpoint_pc' = [endpoint_pc EXCEPT ![s] = "closing"]
                    /\ UNCHANGED << is_connected, active_sessions, client_conn >>
               ELSE /\ gemini_conn' = [gemini_conn EXCEPT ![s] = "closed_error"]
                    /\ endpoint_pc' = [endpoint_pc EXCEPT ![s] = "done"]
                    /\ client_conn' = [client_conn EXCEPT ![s] =
                                          IF @ = "open" THEN "released" ELSE @]
                    /\ UNCHANGED << is_connected, active_sessions >>
       ELSE /\ finish_teardown(s)
            /\ UNCHANGED gemini_conn
    /\ UNCHANGED << gemini_ws, connect_calls, listenerVars, client_inbox, gemini_inbox,
                    client_read, gemini_sent, client_sent >>

\* the rest of close and of the finally block, after gemini_ws.close()
unregister(s) ==
    /\ endpoint_pc[s] = "closing"
    /\ finish_teardown(s)
    /\ UNCHANGED << gemini_ws, connect_calls, listenerVars, gemini_conn, client_inbox,
                    gemini_inbox, client_read, gemini_sent, client_sent >>

\* session.close() (lines 242-246) called once more on a session whose
\* endpoint call has ended: the whole method, which either returns or
\* lets the exception of gemini_ws.close() out
close_again(s) ==
    /\ endpoint_pc[s] = "done"
    /\ \E outcome \in (IF gemini_ws[s] # "None" THEN ws_close_outcomes(s) ELSE {"returned"}) :
          IF outcome = "returned"
          THEN /\ gemini_conn' = [gemini_conn EXCEPT ![s] =
                                     IF gemini_ws[s] # "None" THEN ws_closed(@) ELSE @]
               /\ is_connected' = [is_connected EXCEPT ![s] = FALSE]
               /\ endpoint_pc' = [endpoint_pc EXCEPT ![s] = "closed_again"]
          ELSE /\ gemini_conn' = [gemini_conn EXCEPT ![s] = "closed_error"]
               /\ endpoint_pc' = [endpoint_pc EXCEPT ![s] = "close_raised"]
               /\ UNCHANGED is_connected
    /\ UNCHANGED << active_sessions, gemini_ws, connect_calls, listenerVars, client_conn,
                    client_inbox, gemini_inbox, client_read, gemini_sent, client_sent >>

\* ------------------------------------------------------- listen_to_gemini
\* lines 121-128: the next frame of the upstream stream, json.loads and
\* handle_gemini_message up to its first part
listen_to_gemini(s) ==
    /\ listener_pc[s] = "listening"
    /\ gemini_read[s] < Len(gemini_inbox[s])
    /\ LET parsed == json_loads(gemini_inbox[s][gemini_read[s] + 1])
           effect == IF parsed.ok THEN MessageEffect(parsed.data) ELSE [kind |-> "skip"]
       IN /\ gemini_read' = [gemini_read EXCEPT ![s] = @ + 1]
          /\ client_sent' = [client_sent EXCEPT ![s] =
                IF effect.kind = "send" THEN ClientSend(s, @, effect.envelope, "listener") ELSE @]
          /\ parts_left' = [parts_left EXCEPT ![s] =
                IF effect.kind = "parts" THEN effect.parts ELSE <<>>]
          /\ listener_pc' = [listener_pc EXCEPT ![s] =
                IF effect.kind = "parts" /\ effect.parts # <<>> THEN "parts" ELSE "listening"]
    /\ UNCHANGED << sessionVars, envVars, client_read, gemini_sent >>

\* lines 147-159: one iteration of the part loop; an exception (a missing
\* key, a send on the closed client socket) ends the message at line 127
handle_part(s) ==
    /\ listener_pc[s] = "parts"
    /\ LET effect == PartEffect(Head(parts_left[s]))
           raised == effect.kind = "raise" \/ (effect.kind = "send" /\ ~ClientOpen(s))
           rest == IF raised THEN <<>> ELSE Tail(parts_left[s])
       IN /\ client_sent' = [client_sent EXCEPT ![s] =
                IF effect.kind = "send" THEN ClientSend(s, @, effect.envelope, "listener") ELSE @]
          /\ parts_left' = [parts_left EXCEPT ![s] = rest]
          /\ listener_pc' = [listener_pc EXCEPT ![s] = IF rest = <<>> THEN "listening" ELSE "parts"]
    /\ UNCHANGED << sessionVars, envVars, client_read, gemini_read, gemini_sent >>

\* line 121 on a closed connection: after a close with code 1000/1001, by
\* the upstream or by close(), the iteration ends and the task returns;
\* after any other close it raises ConnectionClosed and lines 129-135 run
stream_closed(s) ==
    /\ listener_pc[s] = "listening"
    /\ gemini_read[s] = Len(gemini_inbox[s])
    /\ gemini_conn[s] \in {"closed_ok", "closed_error", "closed_local"}
    /\ listener_pc' = [listener_pc EXCEPT ![s] = "done"]
    /\ IF gemini_conn[s] = "closed_error"
       THEN /\ is_connected' = [is_connected EXCEPT ![s] = FALSE]
            /\ client_sent' = [client_sent EXCEPT ![s] =
                  ClientSend(s, @, DisconnectedEnvelope, "listener")]
       ELSE UNCHANGED << is_connected, client_sent >>
    /\ UNCHANGED << active_sessions, gemini_ws, connect_calls, endpoint_pc, parts_left,
                    gemini_read, envVars, client_read, gemini_sent >>

\* ------------------------------------------------------------ environment
\* the client writes an envelope, one of envelopes, to its socket
client_send(s, envelopes, budget) ==
    /\ ClientOpen(s)
    /\ Traffic < budget
    /\ \E envelope \in envelopes :
          client_inbox' = [client_inbox EXCEPT ![s] = Append(@, envelope)]
    /\ UNCHANGED << sessionVars, listenerVars, gemini_conn, client_conn, gemini_inbox,
                    client_read, gemini_sent, client_sent >>

\* the client closes its socket
client_close(s) ==
    /\ ClientOpen(s)
    /\ client_conn' = [client_conn EXCEPT ![s] = "closed"]
    /\ UNCHANGED << sessionVars, listenerVars, gemini_conn, client_inbox, gemini_inbox,
                    client_read, gemini_sent, client_sent >>

\* the upstream writes a frame, one of frames, to its socket
gemini_frame(s, frames, budget) ==
    /\ GeminiOpen(s)
    /\ Traffic < budget
    /\ \E frame \in frames :
          gemini_inbox' = [gemini_inbox EXCEPT ![s] = Append(@, frame)]
    /\ UNCHANGED << sessionVars, listenerVars, gemini_conn, client_conn, client_inbox,
                    client_read, gemini_sent, client_sent >>

\* the upstream connection closes: normally (code 1000/1001) or not
gemini_close(s) ==
    /\ GeminiOpen(s)
    /\ \E how \in {"closed_ok", "closed_error"} :
          gemini_conn' = [gemini_conn EXCEPT ![s] = how]
    /\ UNCHANGED << sessionVars, listenerVars, client_conn, client_inbox, gemini_inbox,
                    client_read, gemini_sent, client_sent >>

\* ----------------------------------------------------------- health_check
\* GET /health (lines 505-507)
health_check == [status |-> "healthy", active_sessions |-> Cardinality(active_sessions)]

\* ---------------------------------------------------------- specification
Step(s) ==
    \/ websocket_accept(s)
    \/ connect_to_gemini(s)
    \/ setup_session(s)
    \/ notify_connected(s)
    \/ receive_envelope(s)
    \/ client_disconnected(s)
    \/ close(s)
    \/ unregister(s)
    \/ listen_to_gemini(s)
    \/ handle_part(s)
    \/ stream_closed(s)
    \/ client_send(s, ClientEnvelopes, MaxTraffic)
    \/ client_close(s)
    \/ gemini_frame(s, CoreFrames, MaxTraffic)
    \/ gemini_close(s)

Next == \E s \in SingleSession : Step(s)

Spec == Init /\ [][Next]_vars

\* The same program with a client that sends nothing, under every frame
\* shape of GeminiFrames: the specification of the upstream translation.
StepUpstream(s) ==
    \/ websocket_accept(s)
    \/ connect_to_gemini(s)
    \/ setup_session(s)
    \/ notify_connected(s)
    \/ client_disconnected(s)
    \/ close(s)
    \/ unregister(s)
    \/ listen_to_gemini(s)
    \/ handle_part(s)
    \/ stream_closed(s)
    \/ client_close(s)
    \/ gemini_frame(s, GeminiFrames, MaxFrames)
    \/ gemini_close(s)

NextUpstream == \E s \in SingleSession : StepUpstream(s)

SpecUpstream == Init /\ [][NextUpstream]_vars

\* Every client of SessionIds at once, each with its own endpoint call and
\* listener task: the specifications of the registry and of the separation
\* of the sessions.  The clients send envelopes of a given set, the
\* upstream sends a turn end and stays up until the session closes the
\* connection.
SessionEnvelopes == { [type |-> "audio_data", data |-> "QUJD"], [type |-> "audio_data"] }
TurnEnvelopes == { [type |-> "audio_data", data |-> "QUJD"] }
SessionFrames == { [wellformed |-> TRUE, value |-> [serverContent |-> [turnComplete |-> TRUE]]] }

StepSessions(s, envelopes) ==
    \/ websocket_accept(s)
    \/ connect_to_gemini(s)
    \/ setup_session(s)
    \/ notify_connected(s)
    \/ receive_envelope(s)
    \/ client_disconnected(s)
    \/ close(s)
    \/ unregister(s)
    \/ listen_to_gemini(s)
    \/ stream_closed(s)
    \/ client_send(s, envelopes, MaxFrames)
    \/ client_close(s)
    \/ gemini_frame(s, SessionFrames, MaxFrames)

\* the clients send an audio turn or an envelope that makes the handler
\* raise
NextRegistry == \E s \in SessionIds : StepSessions(s, SessionEnvelopes)

SpecRegistry == Init /\ [][NextRegistry]_vars

\* the clients send audio turns
NextSessions == \E s \in SessionIds : StepSessions(s, TurnEnvelopes)

SpecSessions == Init /\ [][NextSessions]_vars

\* One client as under SpecRegistry, an upstream that may also close the
\* connection, and a second call of close after the endpoint has ended:
\* the specification of close as an operation.
StepClose(s) ==
    \/ StepSessions(s, SessionEnvelopes)
    \/ gemini_close(s)
    \/ close_again(s)

NextClose == \E s \in SingleSession : StepClose(s)

SpecClose == Init /\ [][NextClose]_vars

\* One client and one upstream with few frames, and scheduling: the event
\* loop runs every task that is ready, so the endpoint call and the
\* listener task each take their next step when they stay able to (an
\* await on a closed socket returns or raises; websockets.connect gives up
\* after its open_timeout).  The two peers owe nothing.
EndpointStep(s) ==
    \/ websocket_accept(s)
    \/ connect_to_gemini(s)
    \/ setup_session(s)
    \/ notify_connected(s)
    \/ receive_envelope(s)
    \/ client_disconnected(s)
    \/ close(s)
    \/ unregister(s)

ListenerStep(s) ==
    \/ listen_to_gemini(s)
    \/ handle_part(s)
    \/ stream_closed(s)

StepFair(s) ==
    \/ EndpointStep(s)
    \/ ListenerStep(s)
    \/ client_send(s, ClientEnvelopes, MaxFrames)
    \/ client_close(s)
    \/ gemini_frame(s, CoreFrames, MaxFrames)
    \/ gemini_close(s)

NextFair == \E s \in SingleSession : StepFair(s)

SpecFair ==
    /\ Init
    /\ [][NextFair]_vars
    /\ \A s \in SingleSession : WF_vars(EndpointStep(s)) /\ WF_vars(ListenerStep(s))

\* A client that sends nothing and an upstream that sends the frames of
\* UnrecognizedFrames and turn ends, several in a row.
StepUnrecognized(s) ==
    \/ websocket_accept(s)
    \/ connect_to_gemini(s)
    \/ setup_session(s)
    \/ notify_connected(s)
    \/ client_disconnected(s)
    \/ close(s)
    \/ unregister(s)
    \/ listen_to_gemini(s)
    \/ handle_part(s)
    \/ stream_closed(s)
    \/ client_close(s)
    \/ gemini_frame(s, UnrecognizedFrames \cup {TurnEndFrame}, MaxTraffic)
    \/ gemini_close(s)

NextUnrecognized == \E s \in SingleSession : StepUnrecognized(s)

SpecUnrecognized == Init /\ [][NextUnrecognized]_vars

TypeOK ==
    /\ active_sessions \subseteq SessionIds
    /\ \A s \in SessionIds :
          /\ gemini_ws[s] \in {"None", "ws"}
          /\ is_connected[s] \in BOOLEAN
          /\ endpoint_pc[s] \in {"idle", "connect", "setup", "notify", "loop", "finally",
                                 "closing", "done", "closed_again", "close_raised"}
          /\ listener_pc[s] \in {"none", "listening", "parts", "done"}
          /\ gemini_conn[s] \in {"none", "open", "closed_ok", "closed_error", "closed_local"}
          /\ client_conn[s] \in {"none", "open", "closed", "released"}
          /\ client_read[s] <= Len(client_inbox[s])
          /\ gemini_read[s] <= Len(gemini_inbox[s])

\* ------------------------------------------------------------ properties
IsSetup(entry) == "setup" \in DOMAIN entry.message
IsClientContent(entry) == "clientContent" \in DOMAIN entry.message
SetupCalls(s) == {i \in 1 .. Len(gemini_sent[s]) : IsSetup(gemini_sent[s][i])}
SentEnvelope(s, envelope) ==
    \E i \in 1 .. Len(client_sent[s]) : client_sent[s][i].envelope = envelope
\* connect_to_gemini has returned or raised
ConnectOver(s) == endpoint_pc[s] \in {"loop", "finally", "closing", "done"}

\* C1: in every session the handshake send is made exactly once when the
\* upstream connection has opened (never twice), and every clientContent
\* send on the upstream comes after a handshake send that succeeded.
C1_HandshakeOnceBeforeContent ==
    \A s \in SessionIds :
       /\ Cardinality(SetupCalls(s)) <= 1
       /\ (ConnectOver(s) /\ gemini_ws[s] # "None") => Cardinality(SetupCalls(s)) = 1
       /\ \A i \in 1 .. Len(gemini_sent[s]) :
             IsClientContent(gemini_sent[s][i]) =>
                \E j \in 1 .. i - 1 : IsSetup(gemini_sent[s][j]) /\ gemini_sent[s][j].ok

\* C2: a session whose connect attempt or handshake failed (it sent the
\* error envelope) makes no second connection attempt and takes no
\* envelope from the downstream socket: it is on its way to Closed.
C2_FailedConnectCloses ==
    \A s \in SessionIds :
       SentEnvelope(s, [type |-> "error", message |-> "Failed to connect to AI service"]) =>
          /\ connect_calls[s] <= 1
          /\ client_read[s] = 0

\* the listener has found the upstream stream closed by the upstream while
\* the downstream socket is open
UpstreamDropSeen(s) ==
    /\ listener_pc[s] = "done"
    /\ gemini_conn[s] \in {"closed_ok", "closed_error"}
    /\ ClientOpen(s)

DisconnectedNotices(s) ==
    {i \in 1 .. Len(client_sent[s]) :
        /\ client_sent[s][i].envelope = [type |-> "connection_status", status |-> "disconnected"]
        /\ client_sent[s][i].ok}

\* C3: once the listener has found the upstream closed (normally or not)
\* with the downstream socket open, the downstream has received exactly one
\* connection_status: disconnected envelope, and from then on the session
\* is closing: the downstream loop takes no further envelope.
C3_UpstreamDropNotifiesOnceAndCloses ==
    [][\A s \in SessionIds :
          UpstreamDropSeen(s)' =>
             /\ Cardinality(DisconnectedNotices(s)') = 1
             /\ (UpstreamDropSeen(s) => client_read'[s] = client_read[s])]_vars

\* C4: in a session that became Active (its listener task was started), no
\* send_json call is made on the downstream socket from the moment the
\* client has disconnected.
C4_NoDownstreamSendAfterDisconnect ==
    [][\A s \in SessionIds :
          (listener_pc[s] # "none" /\ client_conn[s] = "closed") =>
             client_sent'[s] = client_sent[s]]_vars

\* the endpoint takes its next envelope in this step, and it is of this type
Receives(s, type) ==
    /\ client_read'[s] = client_read[s] + 1
    /\ client_inbox[s][client_read'[s]].type = type

\* C5: every ping the downstream loop receives is answered by exactly one
\* send_json of a pong envelope and by no send on the upstream, whatever the
\* state of the upstream connection; a session that has received only
\* pings has made no upstream send but the handshake.
C5_PingAnsweredByOnePong ==
    /\ [][\A s \in SessionIds :
             Receives(s, "ping") =>
                /\ Len(client_sent'[s]) = Len(client_sent[s]) + 1
                /\ client_sent'[s][Len(client_sent'[s])].envelope = [type |-> "pong"]
                /\ client_sent'[s][Len(client_sent'[s])].ok = ClientOpen(s)
                /\ SubSeq(client_sent'[s], 1, Len(client_sent[s])) = client_sent[s]
                /\ gemini_sent'[s] = gemini_sent[s]]_vars
    /\ [](\A s \in SessionIds :
             (\A i \in 1 .. client_read[s] : client_inbox[s][i].type = "ping") =>
                \A j \in 1 .. Len(gemini_sent[s]) : IsSetup(gemini_sent[s][j]))

\* two pings were received and answered while the upstream was connected,
\* and the handshake is the only upstream send
C5_Witness ==
    \E s \in SessionIds :
       /\ client_read[s] = 2
       /\ client_inbox[s][1].type = "ping" /\ client_inbox[s][2].type = "ping"
       /\ is_connected[s] /\ GeminiOpen(s)
       /\ Len(gemini_sent[s]) = 1
       /\ Len(client_sent[s]) = 3
       /\ client_sent[s][2].envelope = [type |-> "pong"] /\ client_sent[s][2].ok
       /\ client_sent[s][3].envelope = [type |-> "pong"] /\ client_sent[s][3].ok

\* the messages of the clientContent send calls, in log order
RECURSIVE ContentSent(_)
ContentSent(log) ==
    IF log = <<>> THEN <<>>
    ELSE IF IsClientContent(Head(log)) THEN <<Head(log).message>> \o ContentSent(Tail(log))
    ELSE ContentSent(Tail(log))

\* the envelopes of the listener's send_json calls, in log order
RECURSIVE ListenerSent(_)
ListenerSent(log) ==
    IF log = <<>> THEN <<>>
    ELSE IF Head(log).by = "listener" THEN <<Head(log).envelope>> \o ListenerSent(Tail(log))
    ELSE ListenerSent(Tail(log))

\* a is b with some elements left out
RECURSIVE IsSubSeq(_, _)
IsSubSeq(a, b) ==
    IF a = <<>> THEN TRUE
    ELSE IF b = <<>> THEN FALSE
    ELSE IF Head(a) = Head(b) THEN IsSubSeq(Tail(a), Tail(b))
    ELSE IsSubSeq(a, Tail(b))

RECURSIVE Flatten(_)
Flatten(seqs) == IF seqs = <<>> THEN <<>> ELSE Head(seqs) \o Flatten(Tail(seqs))

\* the upstream turn the relay owes for a downstream envelope (at most one)
TurnFor(envelope) ==
    IF envelope.type = "audio_data" /\ "data" \in DOMAIN envelope
    THEN << [clientContent |->
               [turns |-> << [role |-> "user",
                              parts |-> << [inlineData |-> [mimeType |-> "audio/pcm",
                                                            data |-> envelope.data]] >>] >>,
                turnComplete |-> TRUE]] >>
    ELSE IF envelope.type = "text_data" /\ "data" \in DOMAIN envelope
    THEN << [clientContent |->
               [turns |-> << [role |-> "user", parts |-> << [text |-> envelope.data] >>] >>,
                turnComplete |-> TRUE]] >>
    ELSE IF envelope.type = "interrupt"
    THEN << [clientContent |-> [turnComplete |-> FALSE]] >>
    ELSE <<>>

\* the downstream envelopes the relay owes for one of the CoreFrames
EnvelopesFor(frame) ==
    IF ~frame.wellformed THEN <<>>
    ELSE IF "setupComplete" \in DOMAIN frame.value THEN << [type |-> "setup_complete"] >>
    ELSE IF "modelTurn" \in DOMAIN frame.value.serverContent
    THEN << [type |-> "audio_response", audio_data |-> "UENN"],
            [type |-> "text_response", text |-> "hi"] >>
    ELSE << [type |-> "turn_complete"] >>

\* the disconnected notice, when there is one, is the last thing sent
WithoutNotice(envelopes) ==
    IF envelopes # <<>> /\ envelopes[Len(envelopes)].type = "connection_status"
    THEN SubSeq(envelopes, 1, Len(envelopes) - 1) ELSE envelopes

\* C6: the turns and interrupts sent upstream are, in order and without
\* duplicates, turns of the envelopes received so far (some may be missing:
\* dropped by the guard), and the envelopes the listener emitted downstream
\* are, in order and without duplicates, envelopes of the frames received so
\* far from the upstream.
C6_OrderPreserved ==
    \A s \in SessionIds :
       /\ IsSubSeq(ContentSent(gemini_sent[s]),
                   Flatten([i \in 1 .. client_read[s] |-> TurnFor(client_inbox[s][i])]))
       /\ IsSubSeq(WithoutNotice(ListenerSent(client_sent[s])),
                   Flatten([i \in 1 .. gemini_read[s] |-> EnvelopesFor(gemini_inbox[s][i])]))

\* an audio turn then an interrupt went upstream in that order, and the
\* two envelopes of a frame went downstream in the order of its parts
C6_Witness ==
    \E s \in SessionIds :
       /\ client_read[s] = 2
       /\ client_inbox[s][1].type = "audio_data"
       /\ client_inbox[s][2].type = "interrupt"
       /\ Len(ContentSent(gemini_sent[s])) = 2
       /\ ContentSent(gemini_sent[s])[2] = [clientContent |-> [turnComplete |-> FALSE]]
       /\ ContentSent(gemini_sent[s])[1] # [clientContent |-> [turnComplete |-> FALSE]]
       /\ gemini_read[s] = 1
       /\ ListenerSent(client_sent[s]) =
             << [type |-> "audio_response", audio_data |-> "UENN"],
                [type |-> "text_response", text |-> "hi"] >>

\* the upstream log grows in this step by exactly one successful send of message
SendsExactly(s, message) ==
    gemini_sent'[s] = Append(gemini_sent[s], [message |-> message, ok |-> TRUE])

\* the envelope the endpoint takes in this step
Taken(s) == client_inbox[s][client_read'[s]]

\* C9: while the upstream is connected, an audio_data envelope with data X
\* produces exactly one upstream message: a clientContent with one user turn
\* whose single part is inline data of MIME type audio/pcm with payload X,
\* turnComplete true; a text_data envelope one user turn with a single text
\* part, turnComplete true; an interrupt a clientContent with no parts and
\* turnComplete false.
C9_TurnTranslation ==
    [][\A s \in SessionIds :
          GeminiOpen(s) =>
             /\ (Receives(s, "audio_data") /\ "data" \in DOMAIN Taken(s)) =>
                   SendsExactly(s,
                      [clientContent |->
                         [turns |-> << [role |-> "user",
                                        parts |-> << [inlineData |->
                                                        [mimeType |-> "audio/pcm",
                                                         data |-> Taken(s).data]] >>] >>,
                          turnComplete |-> TRUE]])
             /\ (Receives(s, "text_data") /\ "data" \in DOMAIN Taken(s)) =>
                   SendsExactly(s,
                      [clientContent |->
                         [turns |-> << [role |-> "user",
                                        parts |-> << [text |-> Taken(s).data] >>] >>,
                          turnComplete |-> TRUE]])
             /\ Receives(s, "interrupt") =>
                   SendsExactly(s, [clientContent |-> [turnComplete |-> FALSE]])]_vars

\* audio_data{data = "QUJD"} was received with the upstream connected and
\* its turn is the last upstream send
C9_Witness ==
    \E s \in SessionIds :
       /\ GeminiOpen(s)
       /\ client_read[s] >= 1
       /\ client_inbox[s][client_read[s]] = [type |-> "audio_data", data |-> "QUJD"]
       /\ Len(gemini_sent[s]) = 2
       /\ gemini_sent[s][2].ok
       /\ gemini_sent[s][2].message.clientContent.turns[1].parts[1].inlineData.data = "QUJD"

\* the listener is not in the middle of a message and none of its
\* send_json calls met a closed downstream socket
ListenerIdle(s) ==
    /\ listener_pc[s] \in {"listening", "done"}
    /\ \A i \in 1 .. Len(client_sent[s]) : client_sent[s][i].ok

IsTextPart(part) == DOMAIN part = {"text"}
IsAudioPart(part) ==
    /\ DOMAIN part = {"inlineData"}
    /\ DOMAIN part.inlineData = {"mimeType", "data"}
    /\ part.inlineData.mimeType = "audio/pcm"

\* an inline-data part of another MIME type, without text
IsOtherPart(part) ==
    /\ DOMAIN part = {"inlineData"}
    /\ DOMAIN part.inlineData = {"mimeType", "data"}
    /\ part.inlineData.mimeType # "audio/pcm"

\* a serverContent message whose modelTurn holds text parts, audio parts
\* and inline-data parts of other MIME types
IsModelTurnFrame(frame) ==
    /\ frame.wellformed
    /\ "serverContent" \in DOMAIN frame.value
    /\ "modelTurn" \in DOMAIN frame.value.serverContent
    /\ \A i \in 1 .. Len(frame.value.serverContent.modelTurn.parts) :
          LET part == frame.value.serverContent.modelTurn.parts[i]
          IN IsTextPart(part) \/ IsAudioPart(part) \/ IsOtherPart(part)

\* one envelope per text or audio part, in part order, with the part's payload
RECURSIVE PartEnvelopes(_)
PartEnvelopes(parts) ==
    IF parts = <<>> THEN <<>>
    ELSE (IF IsTextPart(Head(parts))
          THEN << [type |-> "text_response", text |-> Head(parts).text] >>
          ELSE IF IsAudioPart(Head(parts))
          THEN << [type |-> "audio_response", audio_data |-> Head(parts).inlineData.data] >>
          ELSE <<>>) \o PartEnvelopes(Tail(parts))

RECURSIVE Responses(_)
Responses(envelopes) ==
    IF envelopes = <<>> THEN <<>>
    ELSE IF Head(envelopes).type \in {"text_response", "audio_response"}
    THEN <<Head(envelopes)>> \o Responses(Tail(envelopes))
    ELSE Responses(Tail(envelopes))

\* C7: when the frames handled so far are serverContent messages whose
\* modelTurn holds text parts and audio/pcm inline-data parts in any order
\* (and possibly inline data of other MIME types), the downstream socket
\* open at every send, the text_response and audio_response envelopes
\* emitted are exactly one per text or audio part, in frame and part order,
\* each with its part's payload.
C7_OneResponsePerPart ==
    \A s \in SessionIds :
       (/\ ListenerIdle(s)
        /\ \A i \in 1 .. gemini_read[s] : IsModelTurnFrame(gemini_inbox[s][i])) =>
          Responses(ListenerSent(client_sent[s])) =
             Flatten([i \in 1 .. gemini_read[s] |->
                        PartEnvelopes(gemini_inbox[s][i].value.serverContent.modelTurn.parts)])

\* a message with a text part followed by an audio part was handled
C7_Witness ==
    \E s \in SessionIds :
       /\ ListenerIdle(s)
       /\ gemini_read[s] = 1
       /\ gemini_inbox[s][1].wellformed
       /\ "serverContent" \in DOMAIN gemini_inbox[s][1].value
       /\ "modelTurn" \in DOMAIN gemini_inbox[s][1].value.serverContent
       /\ gemini_inbox[s][1].value.serverContent.modelTurn.parts =
             << [text |-> "hi"], [inlineData |-> [mimeType |-> "audio/pcm", data |-> "UENN"]] >>
       /\ ListenerSent(client_sent[s]) =
             << [type |-> "text_response", text |-> "hi"],
                [type |-> "audio_response", audio_data |-> "UENN"] >>

HasTurnComplete(frame) ==
    /\ frame.wellformed
    /\ "serverContent" \in DOMAIN frame.value
    /\ "turnComplete" \in DOMAIN frame.value.serverContent

TurnCompletesSent(s) ==
    {i \in 1 .. Len(client_sent[s]) : client_sent[s][i].envelope = [type |-> "turn_complete"]}

\* C8: when the listener has handled the frames received so far (the
\* downstream socket open at every send), it has emitted one turn_complete
\* envelope for every serverContent message that carries a turnComplete
\* marker, with or without a modelTurn beside it.
C8_TurnCompleteForEveryMarker ==
    \A s \in SessionIds :
       ListenerIdle(s) =>
          Cardinality(TurnCompletesSent(s)) =
             Cardinality({i \in 1 .. gemini_read[s] : HasTurnComplete(gemini_inbox[s][i])})

\* C10: the listener stays in its loop at a malformed frame and emits
\* nothing for it, and when the frames received so far, a malformed one
\* among them, are handled (the downstream socket open at every send), the
\* envelopes emitted are exactly those of the valid frames, in order.
C10_MalformedFrameSkipped ==
    /\ [][\A s \in SessionIds :
             (gemini_read'[s] = gemini_read[s] + 1
                 /\ ~gemini_inbox[s][gemini_read'[s]].wellformed) =>
                (listener_pc'[s] = "listening" /\ client_sent'[s] = client_sent[s])]_vars
    /\ [](\A s \in SessionIds :
             (/\ ListenerIdle(s)
              /\ \E i \in 1 .. gemini_read[s] : ~gemini_inbox[s][i].wellformed) =>
                WithoutNotice(ListenerSent(client_sent[s])) =
                   Flatten([i \in 1 .. gemini_read[s] |-> EnvelopesFor(gemini_inbox[s][i])]))

\* a malformed frame was followed by a setupComplete frame, which was relayed
C10_Witness ==
    \E s \in SessionIds :
       /\ gemini_read[s] = 2
       /\ ~gemini_inbox[s][1].wellformed
       /\ gemini_inbox[s][2].wellformed
       /\ listener_pc[s] = "listening"
       /\ ListenerSent(client_sent[s]) = << [type |-> "setup_complete"] >>

\* the sessions whose client was accepted and whose endpoint call has not
\* ended yet
InTeardownOrBefore == {s \in SessionIds : endpoint_pc[s] \notin {"idle", "done"}}

\* C11: with any number of sessions, the registry holds exactly the
\* sessions that were accepted and whose teardown has not finished, the
\* health query reports their number, and a session whose endpoint call has
\* ended, by whatever exit, has no entry.
C11_RegistryExact ==
    /\ active_sessions = InTeardownOrBefore
    /\ health_check.active_sessions = Cardinality(InTeardownOrBefore)
    /\ \A s \in SessionIds : endpoint_pc[s] = "done" => s \notin active_sessions

\* close has nothing left to close on this session: the flag is down and
\* there is no upstream handle or its connection is closed already
AlreadyClosed(s) == ~is_connected[s] /\ (gemini_ws[s] = "None" \/ ~GeminiOpen(s))

\* this step is one of close: of the call in the finally block (from
\* "finally", and from "closing" when gemini_ws.close() was awaited) or of
\* a later call
CloseStep(s) ==
    /\ endpoint_pc[s] \in {"finally", "closing", "done"}
    /\ endpoint_pc'[s] # endpoint_pc[s]

\* gemini_ws.close() raised in this step
CloseRaised(s) ==
    \/ endpoint_pc'[s] = "close_raised"
    \/ endpoint_pc[s] = "finally" /\ gemini_ws[s] # "None" /\ endpoint_pc'[s] = "done"

\* C12: close on a session that is closed already, or that never had an
\* upstream connection, sends nothing on either socket, raises nothing and
\* leaves the handle, the flag (false) and the connection state as they
\* were; a second close after the endpoint's own changes nothing at all but
\* the caller's position.
C12_CloseIdempotent ==
    [][\A s \in SessionIds :
          (CloseStep(s) /\ AlreadyClosed(s)) =>
             /\ ~CloseRaised(s)
             /\ client_sent'[s] = client_sent[s]
             /\ gemini_sent'[s] = gemini_sent[s]
             /\ is_connected'[s] = FALSE
             /\ gemini_ws'[s] = gemini_ws[s]
             /\ gemini_conn'[s] = gemini_conn[s]
             /\ endpoint_pc[s] = "done" =>
                   /\ endpoint_pc'[s] = "closed_again"
                   /\ active_sessions' = active_sessions
                   /\ client_conn' = client_conn]_vars

\* close has run twice on a session with an upstream connection: the
\* first call closed the connection, the second found it closed
C12_Witness ==
    \E s \in SessionIds :
       /\ endpoint_pc[s] = "closed_again"
       /\ gemini_ws[s] = "ws"
       /\ gemini_conn[s] = "closed_local"
       /\ ~is_connected[s]
       /\ s \notin active_sessions

\* a write of a turn or an interrupt to the upstream has failed
UpstreamWriteFailed(s) ==
    \E i \in 1 .. Len(gemini_sent[s]) :
       IsClientContent(gemini_sent[s][i]) /\ ~gemini_sent[s][i].ok

\* C13: once a write of an audio turn, a text turn or an interrupt to the
\* upstream has failed, the session forwards nothing more: it takes no
\* further envelope from the downstream socket and makes no further send
\* call on the upstream.
C13_SendFailureEndsForwarding ==
    [][\A s \in SessionIds :
          UpstreamWriteFailed(s) =>
             /\ client_read'[s] = client_read[s]
             /\ gemini_sent'[s] = gemini_sent[s]]_vars

\* the endpoint takes an audio_data or text_data envelope with its data in
\* this step
ReceivesTurn(s) ==
    /\ Receives(s, "audio_data") \/ Receives(s, "text_data")
    /\ "data" \in DOMAIN client_inbox[s][client_read'[s]]

\* the client has been sent, on its open socket, an envelope that tells it
\* the upstream is not there
ToldNotConnected(log) ==
    \E i \in 1 .. Len(log) :
       /\ log[i].ok
       /\ log[i].envelope \in {ErrorEnvelope, DisconnectedEnvelope}

\* C14: when the endpoint takes an audio_data or text_data envelope while
\* the upstream connection is closed or was never opened, the downstream
\* loop goes on and the client is told so by an envelope: one sent in this
\* step or, at the latest by now, the error or the disconnected notice.
C14_NotConnectedIsReported ==
    [][\A s \in SessionIds :
          (ReceivesTurn(s) /\ ~GeminiOpen(s)) =>
             /\ endpoint_pc'[s] = "loop"
             /\ \/ Len(client_sent'[s]) > Len(client_sent[s])
                \/ ToldNotConnected(client_sent'[s])]_vars

\* C15: from the moment the downstream socket of a session is closed, the
\* upstream connection gets closed and the listener task, if one was
\* started, ends, when the endpoint call and the listener task are
\* scheduled fairly.
C15_ListenerEndsAfterDisconnect ==
    \A s \in SessionIds :
       (client_conn[s] \in {"closed", "released"}) ~>
          (~GeminiOpen(s) /\ listener_pc[s] \in {"none", "done"})

\* the client has disconnected from an Active session, close has closed
\* the upstream connection and the listener task has ended on that
C15_Witness ==
    \E s \in SessionIds :
       /\ client_conn[s] = "closed"
       /\ gemini_conn[s] = "closed_local"
       /\ listener_pc[s] = "done"
       /\ endpoint_pc[s] = "done"
       /\ gemini_read[s] > 0

\* this step is one of session s: of its endpoint call or of its listener
Acts(s) ==
    \/ endpoint_pc'[s] # endpoint_pc[s]
    \/ client_read'[s] # client_read[s]
    \/ listener_pc'[s] # listener_pc[s]
    \/ parts_left'[s] # parts_left[s]
    \/ gemini_read'[s] # gemini_read[s]

\* C16: a step of one session leaves the upstream handle, the downstream
\* socket, the upstream connection, the flag and the registry entry of
\* every other session as they were, and makes no send call on the
\* sockets of another session.
C16_SessionsSeparate ==
    [][\A s \in SessionIds : Acts(s) =>
          \A t \in SessionIds \ {s} :
             /\ gemini_ws'[t] = gemini_ws[t]
             /\ client_conn'[t] = client_conn[t]
             /\ gemini_conn'[t] = gemini_conn[t]
             /\ is_connected'[t] = is_connected[t]
             /\ (t \in active_sessions') = (t \in active_sessions)
             /\ gemini_sent'[t] = gemini_sent[t]
             /\ client_sent'[t] = client_sent[t]]_vars

\* two sessions have been Active at once; one has been torn down, the
\* other is still registered and connected and has forwarded a turn since
C16_Witness ==
    \E s, t \in SessionIds :
       /\ s # t
       /\ endpoint_pc[t] = "done" /\ gemini_ws[t] = "ws" /\ t \notin active_sessions
       /\ endpoint_pc[s] = "loop" /\ s \in active_sessions
       /\ is_connected[s] /\ GeminiOpen(s) /\ ClientOpen(s)
       /\ Len(gemini_sent[s]) = 2 /\ gemini_sent[s][2].ok

\* the endpoint takes, in this step, an envelope that leads to one of the
\* three upstream sends
ReceivesForwardable(s) == ReceivesTurn(s) \/ Receives(s, "interrupt")

\* C17: an audio turn, a text turn or an interrupt is sent on the upstream
\* only by a step that found the flag up and the handle present; with the
\* flag down or no handle the envelope is dropped and nothing of the
\* session changes; and whether the send is made or not, and whether it
\* fails or not, the endpoint stays in its loop.
C17_NoSendWhenNotConnected ==
    [][\A s \in SessionIds :
          /\ (gemini_sent'[s] # gemini_sent[s]
                 /\ IsClientContent(gemini_sent'[s][Len(gemini_sent'[s])])) =>
                (is_connected[s] /\ gemini_ws[s] # "None")
          /\ ReceivesForwardable(s) =>
                /\ endpoint_pc'[s] = "loop"
                /\ (~is_connected[s] \/ gemini_ws[s] = "None") =>
                      /\ gemini_sent'[s] = gemini_sent[s]
                      /\ client_sent'[s] = client_sent[s]
                      /\ is_connected'[s] = is_connected[s]
                      /\ gemini_ws'[s] = gemini_ws[s]
                      /\ gemini_conn'[s] = gemini_conn[s]
                      /\ active_sessions' = active_sessions
                /\ (is_connected[s] /\ gemini_ws[s] # "None" /\ ~GeminiOpen(s)) =>
                      /\ Len(gemini_sent'[s]) = Len(gemini_sent[s]) + 1
                      /\ ~gemini_sent'[s][Len(gemini_sent'[s])].ok]_vars

\* the listener has cleared the flag after an upstream drop, the handle is
\* still there, and the endpoint has taken an audio turn and an interrupt
\* since: neither was sent
C17_Witness ==
    \E s \in SessionIds :
       /\ endpoint_pc[s] = "loop"
       /\ ~is_connected[s] /\ gemini_ws[s] = "ws"
       /\ client_read[s] = 2
       /\ client_inbox[s][1] = [type |-> "audio_data", data |-> "QUJD"]
       /\ client_inbox[s][2] = [type |-> "interrupt"]
       /\ Len(gemini_sent[s]) = 1 /\ IsSetup(gemini_sent[s][1])

\* the envelopes owed for the elements of a frame that have a recognized
\* shape: setup_complete, turn_complete, and one response per text part and
\* per audio/pcm part of a modelTurn
RecognizedIn(frame) ==
    IF ~frame.wellformed THEN <<>>
    ELSE IF "serverContent" \in DOMAIN frame.value
    THEN LET content == frame.value.serverContent
         IN IF "modelTurn" \in DOMAIN content
            THEN IF "parts" \in DOMAIN content.modelTurn
                 THEN PartEnvelopes(content.modelTurn.parts) ELSE <<>>
            ELSE IF "turnComplete" \in DOMAIN content
            THEN << [type |-> "turn_complete"] >> ELSE <<>>
    ELSE IF "setupComplete" \in DOMAIN frame.value
    THEN << [type |-> "setup_complete"] >> ELSE <<>>

\* the frame is a modelTurn with an inlineData part that has no mimeType
HasPartWithoutMime(frame) ==
    /\ frame.wellformed
    /\ "serverContent" \in DOMAIN frame.value
    /\ "modelTurn" \in DOMAIN frame.value.serverContent
    /\ "parts" \in DOMAIN frame.value.serverContent.modelTurn
    /\ \E i \in 1 .. Len(frame.value.serverContent.modelTurn.parts) :
          LET part == frame.value.serverContent.modelTurn.parts[i]
          IN "inlineData" \in DOMAIN part /\ "mimeType" \notin DOMAIN part.inlineData

\* C18: a valid-JSON frame with no recognized element (no serverContent
\* and no setupComplete; serverContent with neither modelTurn nor
\* turnComplete; a modelTurn without parts) is taken by the listener with
\* no send and the listener stays in its loop; a part that is neither text
\* nor audio/pcm inline data is stepped over with no send; the listener
\* ends only when the upstream connection is closed; and when the frames
\* received are handled (the downstream socket open at every send) the
\* envelopes emitted are owed to recognized elements, in order, among them
\* one turn_complete for every turn end received, before or after
\* unrecognized frames, and all the owed ones when no part lacked its MIME
\* type.
C18_UnrecognizedDropped ==
    /\ [][\A s \in SessionIds :
             /\ (gemini_read'[s] = gemini_read[s] + 1
                   /\ gemini_inbox[s][gemini_read'[s]].wellformed
                   /\ RecognizedIn(gemini_inbox[s][gemini_read'[s]]) = <<>>
                   /\ ~HasPartWithoutMime(gemini_inbox[s][gemini_read'[s]])) =>
                   (listener_pc'[s] = "listening" /\ client_sent'[s] = client_sent[s])
             /\ (listener_pc[s] = "parts" /\ parts_left'[s] # parts_left[s]
                   /\ PartEnvelopes(<<Head(parts_left[s])>>) = <<>>) =>
                   (listener_pc'[s] \in {"listening", "parts"} /\ client_sent'[s] = client_sent[s])]_vars
    /\ [](\A s \in SessionIds :
             /\ listener_pc[s] = "done" => ~GeminiOpen(s)
             /\ ListenerIdle(s) =>
                   LET sent == WithoutNotice(ListenerSent(client_sent[s]))
                       owed == Flatten([i \in 1 .. gemini_read[s] |->
                                           RecognizedIn(gemini_inbox[s][i])])
                   IN /\ IsSubSeq(sent, owed)
                      /\ Cardinality(TurnCompletesSent(s)) =
                            Cardinality({i \in 1 .. gemini_read[s] :
                                            gemini_inbox[s][i] = TurnEndFrame})
                      /\ (\A i \in 1 .. gemini_read[s] :
                             ~HasPartWithoutMime(gemini_inbox[s][i])) => sent = owed)

\* a message of an unknown kind, then a modelTurn with an image part before
\* its text part, then a turn end: the text and the turn end were relayed
C18_Witness ==
    \E s \in SessionIds :
       /\ gemini_read[s] = 3
       /\ gemini_inbox[s][1].value = [usageMetadata |-> [totalTokenCount |-> 1]]
       /\ gemini_inbox[s][2].value =
             [serverContent |-> [modelTurn |-> [parts |-> <<ImagePart, TextPart>>]]]
       /\ gemini_inbox[s][3] = TurnEndFrame
       /\ listener_pc[s] = "listening"
       /\ ListenerSent(client_sent[s]) =
             << [type |-> "text_response", text |-> "hi"], [type |-> "turn_complete"] >>

\* the positions of the connected notice in the downstream log
ConnectedNotices(s) ==
    {i \in 1 .. Len(client_sent[s]) : client_sent[s][i].envelope = ConnectedEnvelope}

\* the envelopes that relay the upstream: its setup and turn ends, its
\* responses and the notice of its loss
IsRelayEnvelope(envelope) ==
    \/ envelope.type \in {"setup_complete", "audio_response", "text_response", "turn_complete"}
    \/ envelope = DisconnectedEnvelope

\* C19: in every session the connected notice is sent at most once, and
\* only when the upstream connection has been opened and the handshake
\* sent on it; every setup_complete, audio_response, text_response,
\* turn_complete and disconnected envelope comes after it in the
\* downstream log; and a session whose connect failed (it was sent the
\* error envelope) has none of these envelopes in its log.
C19_ConnectedFirst ==
    \A s \in SessionIds :
       /\ Cardinality(ConnectedNotices(s)) <= 1
       /\ ConnectedNotices(s) # {} =>
             /\ gemini_ws[s] # "None"
             /\ connect_calls[s] = 1
             /\ \E k \in 1 .. Len(gemini_sent[s]) : IsSetup(gemini_sent[s][k]) /\ gemini_sent[s][k].ok
       /\ \A j \in 1 .. Len(client_sent[s]) :
             IsRelayEnvelope(client_sent[s][j].envelope) =>
                \E i \in ConnectedNotices(s) : i < j /\ client_sent[s][i].ok
       /\ SentEnvelope(s, ErrorEnvelope) =>
             \A j \in 1 .. Len(client_sent[s]) : ~IsRelayEnvelope(client_sent[s][j].envelope)

\* the connected notice, then the relayed setup_complete, then the notice
\* of the upstream's loss
C19_Witness ==
    \E s \in SessionIds :
       /\ Len(client_sent[s]) = 3
       /\ client_sent[s][1].envelope = ConnectedEnvelope
       /\ client_sent[s][2].envelope = SetupCompleteEnvelope
       /\ client_sent[s][3].envelope = DisconnectedEnvelope

====
